---- MODULE Spec2Model ----
(***************************************************************************)
(* docs/source/conf.py of rules_testing: the Sphinx configuration file.    *)
(*                                                                         *)
(* The file is a Python module body of sixteen assignment statements.      *)
(* The model is the evaluation of that body: a program counter over the    *)
(* statements and the module namespace they bind.  A second namespace is   *)
(* evaluated in lock-step from a copy of the file in which one statement's *)
(* literal has been replaced, so that the dependence of one configuration  *)
(* value on another can be observed.                                       *)
(***************************************************************************)
EXTENDS FiniteSets, Integers, Sequences, TLC

VARIABLES
    pc,      \* index in Stmts of the next statement to execute
    env,     \* module namespace of conf.py: name -> value
    env2,    \* namespace of the run of the file with one literal replaced
    pert,    \* which statement's literal is replaced in the second run, and by what
    trace,   \* indices of the statements executed so far, in execution order
    raised   \* TRUE once a statement has raised (NameError)

vars == <<pc, env, env2, pert, trace, raised>>

(***************************************************************************)
(* Bounds                                                                  *)
(***************************************************************************)
\* longest replacement literal tried in the second run
MaxAlt == 2

(***************************************************************************)
(* Python values.  A str keeps its text, a list its elements in order, a   *)
(* dict its items in insertion order.                                      *)
(***************************************************************************)
Str(s) == [tag |-> "str", val |-> s]
List(elems) == [tag |-> "list", val |-> elems]
Dict(items) == [tag |-> "dict", val |-> items]

\* the expression on the right-hand side of an assignment: a literal
Lit(v) == [kind |-> "lit", val |-> v, id |-> ""]

Assign(line, target, rhs) == [line |-> line, target |-> target, rhs |-> rhs]

(***************************************************************************)
(* The sixteen statements of conf.py, lines 5-61.                          *)
(***************************************************************************)
StmtsBase ==
    << Assign(5, "project", Lit(Str("rules_testing"))),
       Assign(6, "copyright", Lit(Str("2023, The Bazel Authors"))),
       Assign(7, "author", Lit(Str("Bazel"))),
       Assign(9, "release", Lit(Str("0.1"))),
       Assign(10, "version", Lit(Str("0.1.0"))),
       Assign(14, "extensions", Lit(List(<<
           Str("sphinx.ext.duration"),
           Str("sphinx.ext.doctest"),
           Str("sphinx.ext.autodoc"),
           Str("sphinx.ext.autosummary"),
           Str("sphinx.ext.intersphinx"),
           Str("sphinx.ext.autosectionlabel"),
           Str("myst_parser"),
           Str("sphinx_rtd_theme") >>))),
       Assign(25, "intersphinx_mapping", Lit(Dict(<< >>))),
       Assign(28, "intersphinx_disabled_domains", Lit(List(<< Str("std") >>))),
       Assign(32, "intersphinx_disabled_reftypes", Lit(List(<< Str("*") >>))),
       Assign(34, "templates_path", Lit(List(<< Str("_templates") >>))),
       Assign(38, "html_theme", Lit(Str("sphinx_rtd_theme"))),
       Assign(40, "html_theme_options", Lit(Dict(<< >>))),
       Assign(43, "myst_enable_extensions", Lit(List(<<
           Str("fieldlist"),
           Str("attrs_block"),
           Str("attrs_inline"),
           Str("colon_fence"),
           Str("deflist") >>))),
       Assign(52, "html_static_path", Lit(List(<< Str("_static") >>))),
       Assign(56, "html_css_files", Lit(List(<< Str("css/custom.css") >>))),
       Assign(61, "epub_show_urls", Lit(Str("footnote"))) >>

(***************************************************************************)
(* Mutated file bodies, used to show that the properties below depend on   *)
(* the statements of the file.  Num is a value and Name an expression that *)
(* conf.py does not use.                                                   *)
(***************************************************************************)
Num(n) == [tag |-> "int", val |-> n]
Name(n) == [kind |-> "name", val |-> Str(""), id |-> n]

\* the index in StmtsBase of the statement that binds name n
IdxOf(n) == CHOOSE i \in 1..Len(StmtsBase) : StmtsBase[i].target = n

WithRhs(n, e) == [StmtsBase EXCEPT ![IdxOf(n)].rhs = e]

\* version is bound a second time, where html_theme was
StmtsRebind ==
    [StmtsBase EXCEPT ![IdxOf("html_theme")] = Assign(38, "version", Lit(Str("0.1")))]
\* a number among the values
StmtsNumber == WithRhs("release", Lit(Num(1)))
\* version computed from release
StmtsDepends == WithRhs("version", Name("release"))
\* myst_parser dropped from the extensions list
StmtsNoMyst ==
    WithRhs("extensions", Lit(List(<< Str("sphinx.ext.intersphinx"), Str("sphinx_rtd_theme") >>)))
\* the theme not loaded as an extension
StmtsNoTheme ==
    WithRhs("extensions", Lit(List(<< Str("sphinx.ext.intersphinx"), Str("myst_parser") >>)))
\* only the std domain's reference types disabled
StmtsStdOnly == WithRhs("intersphinx_disabled_reftypes", Lit(List(<< Str("std:*") >>)))
\* an absolute filesystem path among the stylesheets
StmtsAbsCss == WithRhs("html_css_files", Lit(List(<< Str("/css/custom.css") >>)))
\* a URL-display mode the tool does not know
StmtsBadEpub == WithRhs("epub_show_urls", Lit(Str("footnotes")))

(***************************************************************************)
(* The module body that is evaluated.                                      *)
(***************************************************************************)
Stmts == StmtsBase

NumStmts == Len(Stmts)
Names == { Stmts[i].target : i \in 1..NumStmts }
Done == pc = NumStmts + 1

\* a branch over the statement that binds version
NextPcSkip(i) == IF i = IdxOf("release") THEN i + 2 ELSE i + 1
\* statements of a module body execute in file order
NextPc(i) == i + 1

\* evaluation of a right-hand side in a namespace
Defined(e, ns) == e.kind = "lit" \/ e.id \in DOMAIN ns
Eval(e, ns) == IF e.kind = "lit" THEN e.val ELSE ns[e.id]

\* name = value: binds (or rebinds) the name in the namespace
Bind(ns, n, v) == [m \in DOMAIN ns \cup {n} |-> IF m = n THEN v ELSE ns[m]]

(***************************************************************************)
(* The second run: the same file with statement pert.idx's right-hand side *)
(* replaced by the literal pert.lit.                                       *)
(***************************************************************************)
RECURSIVE Rep(_)
Rep(k) == IF k = 0 THEN "" ELSE "x" \o Rep(k - 1)
AltLits == { Str(Rep(k)) : k \in 0..MaxAlt }

Stmts2 == [Stmts EXCEPT ![pert.idx].rhs = Lit(pert.lit)]

(***************************************************************************)
(* State machine                                                           *)
(***************************************************************************)
Init ==
    /\ pc = 1
    /\ env = << >>
    /\ env2 = << >>
    /\ pert \in [idx : 1..NumStmts, lit : AltLits]
    /\ trace = << >>
    /\ raised = FALSE

\* one assignment statement of the file, executed in both runs
ExecStmt(i) ==
    /\ pc = i
    /\ ~raised
    /\ IF Defined(Stmts[i].rhs, env) /\ Defined(Stmts2[i].rhs, env2)
       THEN /\ env' = Bind(env, Stmts[i].target, Eval(Stmts[i].rhs, env))
            /\ env2' = Bind(env2, Stmts2[i].target, Eval(Stmts2[i].rhs, env2))
            /\ pc' = NextPc(i)
            /\ raised' = FALSE
       ELSE /\ raised' = TRUE
            /\ UNCHANGED <<env, env2, pc>>
    /\ trace' = Append(trace, i)
    /\ UNCHANGED pert

Next == \E i \in 1..NumStmts : ExecStmt(i)

Spec == Init /\ [][Next]_vars

\* the interpreter runs the module body to its end
FairSpec == Spec /\ WF_vars(Next)

TypeOK ==
    /\ pc \in 1..(NumStmts + 1)
    /\ DOMAIN env \subseteq Names
    /\ DOMAIN env2 \subseteq Names
    /\ raised \in BOOLEAN

(***************************************************************************)
(* Helpers of the properties                                               *)
(***************************************************************************)
Bound(n) == n \in DOMAIN env
Elems(v) == { v.val[i] : i \in 1..Len(v.val) }
CharAt(s, i) == SubSeq(s, i, i)
StartsWith(s, p) == Len(p) <= Len(s) /\ SubSeq(s, 1, Len(p)) = p
Contains(s, p) == \E i \in 1..(Len(s) - Len(p) + 1) : SubSeq(s, i, i + Len(p) - 1) = p

\* s.split('.')
RECURSIVE SplitDot(_)
SplitDot(s) ==
    IF \E i \in 1..Len(s) : CharAt(s, i) = "."
    THEN LET i == CHOOSE j \in 1..Len(s) :
                      /\ CharAt(s, j) = "."
                      /\ \A k \in 1..(j - 1) : CharAt(s, k) # "."
         IN <<SubSeq(s, 1, i - 1)>> \o SplitDot(SubSeq(s, i + 1, Len(s)))
    ELSE <<s>>

IsPrefix(a, b) == Len(a) <= Len(b) /\ \A i \in 1..Len(a) : a[i] = b[i]

\* C1: a name that has been bound keeps the value it was first bound to; no
\* statement rebinds, changes or deletes a bound name, and every executed
\* statement binds a name that was not bound before.
BoundOnce ==
    [][ /\ \A n \in DOMAIN env : n \in DOMAIN env' /\ env'[n] = env[n]
        /\ Cardinality(DOMAIN env') = Cardinality(DOMAIN env) + 1 ]_vars
BoundOnceWitness ==
    /\ pc > IdxOf("html_theme")
    /\ Bound("version")
    /\ env["version"] = Str("0.1.0")
    /\ Cardinality(DOMAIN env) = pc - 1

\* C2: in the final configuration every value is a string, a mapping, or a
\* sequence whose elements are all strings.
ShapeOK(v) ==
    \/ v.tag = "str"
    \/ v.tag = "dict"
    \/ v.tag = "list" /\ \A e \in Elems(v) : e.tag = "str"
FlatShapes == Done => \A n \in DOMAIN env : ShapeOK(env[n])
FlatShapesWitness ==
    /\ Done
    /\ \E n \in DOMAIN env : env[n].tag = "str"
    /\ \E n \in DOMAIN env : env[n].tag = "dict"
    /\ \E n \in DOMAIN env : env[n].tag = "list" /\ Len(env[n].val) > 1

\* C3: no value depends on another: every right-hand side is a literal, and
\* the run in which one name's literal was replaced ends with the same value
\* for every other name.
NoDependence ==
    /\ \A i \in 1..NumStmts : Stmts[i].rhs.kind = "lit"
    /\ Done =>
         /\ DOMAIN env2 = DOMAIN env
         /\ \A n \in DOMAIN env : n # Stmts[pert.idx].target => env2[n] = env[n]
NoDependenceWitness ==
    /\ Done
    /\ pert.idx = IdxOf("release")
    /\ env2["release"] # env["release"]
    /\ env2["version"] = env["version"]

\* C4: evaluation is straight-line: the statements execute once each, in file
\* order, none raises, and evaluation ends with every name of the file bound.
StraightLine ==
    /\ [](/\ ~raised
          /\ Len(trace) = pc - 1
          /\ \A k \in 1..Len(trace) : trace[k] = k)
    /\ <>(Done /\ DOMAIN env = Names)
StraightLineWitness ==
    /\ Done
    /\ Len(trace) = NumStmts
    /\ DOMAIN env = Names
    /\ ~raised

\* The options of the documentation tool itself, and the extension that owns
\* each of the other options (the tool's schema, as read by C5).
CoreOptions ==
    { "project", "copyright", "author", "release", "version", "extensions",
      "templates_path", "html_theme", "html_theme_options", "html_static_path",
      "html_css_files", "epub_show_urls" }
Owner(n) ==
    IF StartsWith(n, "intersphinx_") THEN "sphinx.ext.intersphinx"
    ELSE IF StartsWith(n, "myst_") THEN "myst_parser"
    ELSE ""
ExtensionEnabled(x) == Bound("extensions") /\ Str(x) \in Elems(env["extensions"])

ThemeIsExtension ==
    Bound("html_theme") =>
        /\ env["html_theme"] = Str("sphinx_rtd_theme")
        /\ Bound("extensions")
        /\ env["html_theme"] \in Elems(env["extensions"])
ThemeIsExtensionWitness ==
    /\ Bound("html_theme")
    /\ Bound("extensions")
    /\ Len(env["extensions"].val) = 8

\* The reading of the intersphinx options that C7 states: a reference of type
\* r in domain d is kept local when the disabled reference types hold "*",
\* "d:*" or "d:r"; the external targets are those of the inventories named in
\* intersphinx_mapping.
RefDomains == { "std", "py", "c" }
RefTypes == { "doc", "ref", "function" }
RefDisabled(d, r) ==
    LET dis == Elems(env["intersphinx_disabled_reftypes"])
    IN \/ Str("*") \in dis
       \/ Str(d \o ":*") \in dis
       \/ Str(d \o ":" \o r) \in dis
ExternalTargets == Elems(env["intersphinx_mapping"])

\* C7: no local reference of any type in any domain can link to an external
\* inventory: the disabled reference types are the wildcard "*", which covers
\* every type of every domain, and intersphinx_mapping names no inventory.
LocalRefsStayLocal ==
    Bound("intersphinx_disabled_reftypes") =>
        /\ Str("*") \in Elems(env["intersphinx_disabled_reftypes"])
        /\ \A d \in RefDomains : \A r \in RefTypes : RefDisabled(d, r)
        /\ \A d \in Elems(env["intersphinx_disabled_domains"]) :
               \A r \in RefTypes : RefDisabled(d.val, r)
        /\ ExternalTargets = {}
LocalRefsStayLocalWitness ==
    /\ Bound("intersphinx_disabled_reftypes")
    /\ Bound("intersphinx_mapping")
    /\ Str("std") \in Elems(env["intersphinx_disabled_domains"])

IsUrl(s) == Contains(s, "://")
IsAbsolutePath(s) == StartsWith(s, "/")

\* C8: every entry of html_css_files is a path relative to a directory of a
\* non-empty html_static_path (no leading "/", no URL scheme) or a fully
\* qualified URL; none is an absolute filesystem path.
CssFilesRelativeOrUrl ==
    Bound("html_css_files") =>
        \A f \in Elems(env["html_css_files"]) :
            /\ ~IsAbsolutePath(f.val)
            /\ \/ IsUrl(f.val)
               \/ /\ ~IsUrl(f.val)
                  /\ Bound("html_static_path")
                  /\ Len(env["html_static_path"].val) > 0
CssFilesWitness ==
    /\ Bound("html_css_files")
    /\ Str("css/custom.css") \in Elems(env["html_css_files"])
    /\ ~IsUrl("css/custom.css")

\* C9: version is a prefix of release (or equal to it), compared component by
\* component on the dot-separated parts.
VersionPrefixOfRelease ==
    (Bound("release") /\ Bound("version")) =>
        IsPrefix(SplitDot(env["version"].val), SplitDot(env["release"].val))

\* C10: epub_show_urls is one of the modes the tool accepts: inline,
\* footnote or no.
EpubModeAccepted ==
    Bound("epub_show_urls") =>
        env["epub_show_urls"] \in { Str("inline"), Str("footnote"), Str("no") }
EpubModeWitness ==
    /\ Bound("epub_show_urls")
    /\ env["epub_show_urls"] = Str("footnote")
====
